---- MODULE Spec2Model ----
(***************************************************************************)
(* Model of the data-cleaning pipeline of myDataLib (package/cleaning.py)  *)
(* and of the import collaborator it calls (package/io.py).                *)
(*                                                                         *)
(* A DataFrame is a record [rows, dtype]: rows is the sequence of rows in  *)
(* index order, each row a function from column name to a cell; dtype is   *)
(* the pandas dtype of each column ("int64", "float64", "object").         *)
(* A cell is NaN, a number (an exact rational; pandas holds floats, the    *)
(* model keeps them exact) or a str (a sequence of characters).            *)
(***************************************************************************)
EXTENDS Integers, Sequences, FiniteSets, TLC

\* ------------------------------------------------------------------ bounds
MaxRows == 2        \* rows of an enumerated data file read by clean_data
MaxUnitRows == 3    \* rows of an enumerated frame passed to one cleaning function
MaxStrLen == 3      \* characters of an enumerated text cell

\* --------------------------------------------------------------- rationals
Abs(n) == IF n < 0 THEN -n ELSE n

RECURSIVE GCD(_, _)
GCD(a, b) == IF b = 0 THEN a ELSE GCD(b, a % b)

Rat(n, d) ==
    LET g == GCD(Abs(n), Abs(d))
        sg == IF d < 0 THEN -1 ELSE 1
    IN  [n |-> sg * (n \div g), d |-> sg * (d \div g)]

RInt(n) == [n |-> n, d |-> 1]
RAdd(a, b) == Rat(a.n * b.d + b.n * a.d, a.d * b.d)
RSub(a, b) == Rat(a.n * b.d - b.n * a.d, a.d * b.d)
RMul(a, b) == Rat(a.n * b.n, a.d * b.d)
RDiv(a, b) == Rat(a.n * b.d, a.d * b.n)
RLe(a, b) == a.n * b.d <= b.n * a.d
RLt(a, b) == a.n * b.d < b.n * a.d

\* ------------------------------------------------------------------- cells
\* sq = TRUE: the number is sign(q) * sqrt(|q|) (a z-score), else it is q.
NaN == [k |-> "nan", q |-> RInt(0), sq |-> FALSE, s |-> <<>>]
NumQ(q) == [k |-> "num", q |-> q, sq |-> FALSE, s |-> <<>>]
Num(n) == NumQ(RInt(n))
Str(s) == [k |-> "str", q |-> RInt(0), sq |-> FALSE, s |-> s]

isnull(v) == v.k = "nan"

\* ------------------------------------------------------- python str methods
Whitespace == {" ", "\t"}
Digits == {"0", "1", "2", "3", "4", "5", "6", "7", "8", "9"}
Upper == {"A", "B", "H"}
LowerOf(c) ==
    CASE c = "A" -> "a"
      [] c = "B" -> "b"
      [] c = "H" -> "h"
      [] OTHER -> c
AsciiLetters == Upper \cup {"a", "b", "e", "h", "l", "o"}

py_lower(s) == [i \in 1..Len(s) |-> LowerOf(s[i])]

RECURSIVE py_lstrip(_)
py_lstrip(s) ==
    IF s # <<>> /\ Head(s) \in Whitespace THEN py_lstrip(Tail(s)) ELSE s

RECURSIVE py_rstrip(_)
py_rstrip(s) ==
    IF s # <<>> /\ s[Len(s)] \in Whitespace
    THEN py_rstrip(SubSeq(s, 1, Len(s) - 1))
    ELSE s

py_strip(s) == py_rstrip(py_lstrip(s))

\* re.sub(r'[^a-zA-Z0-9\s]', '', s)
KeptByPattern(c) == c \in AsciiLetters \cup Digits \cup Whitespace
re_sub_special(s) == SelectSeq(s, KeptByPattern)

DigitVal(c) == CHOOSE n \in 0..9 : ToString(n) = c

RECURSIVE DigitsVal(_)
DigitsVal(s) ==
    IF s = <<>> THEN 0 ELSE 10 * DigitsVal(SubSeq(s, 1, Len(s) - 1)) + DigitVal(s[Len(s)])

\* int(s) / float(s) on the model's alphabet: surrounding whitespace is
\* ignored, the rest must be a non-empty run of decimal digits.
IsNumeral(s) ==
    LET b == py_strip(s) IN b # <<>> /\ \A i \in 1..Len(b) : b[i] \in Digits
ParseNumeral(s) == DigitsVal(py_strip(s))

\* -------------------------------------------------------------- DataFrame
ColumnOrder == <<"x", "y", "t">>
Columns == {ColumnOrder[i] : i \in 1..Len(ColumnOrder)}

ColVals(df, c) == [i \in 1..Len(df.rows) |-> df.rows[i][c]]
HasColumn(df, c) == c \in DOMAIN df.dtype
HasColumns(df, cols) == \A i \in 1..Len(cols) : HasColumn(df, cols[i])
SeqSet(s) == {s[i] : i \in 1..Len(s)}

NotNull(vals) == SelectSeq(vals, LAMBDA v : ~isnull(v))
SetColumn(df, c, vals, dt) ==
    [rows |-> [i \in 1..Len(df.rows) |-> [df.rows[i] EXCEPT ![c] = vals[i]]],
     dtype |-> [df.dtype EXCEPT ![c] = dt]]

NoFrame == [rows |-> <<>>, dtype |-> [c \in {} |-> "object"]]
Ok(df) == [ok |-> TRUE, df |-> df, err |-> "none"]
Raise(e) == [ok |-> FALSE, df |-> NoFrame, err |-> e]

\* Optional arguments: none = TRUE is Python's None.
None == [none |-> TRUE, cols |-> <<>>]
Some(cols) == [none |-> FALSE, cols |-> cols]
NoFill == [none |-> TRUE, v |-> NaN]
Fill(v) == [none |-> FALSE, v |-> v]

\* dtype pandas infers for a column read from a file
InferDtype(vals) ==
    IF \E i \in 1..Len(vals) : vals[i].k = "str" THEN "object"
    ELSE IF \E i \in 1..Len(vals) : isnull(vals[i]) THEN "float64"
    ELSE "int64"

\* numpy's object -> float64 conversion used by the sklearn estimators:
\* a str converts when float(s) accepts it.
FloatConvertible(vals) ==
    \A i \in 1..Len(vals) : vals[i].k = "str" => IsNumeral(vals[i].s)
AsFloat(v) == IF v.k = "str" THEN Num(ParseNumeral(v.s)) ELSE v

RECURSIVE RSum(_)
RSum(vals) == IF vals = <<>> THEN RInt(0) ELSE RAdd(Head(vals).q, RSum(Tail(vals)))

Sorted(vals) == SortSeq(vals, LAMBDA a, b : RLt(a.q, b.q))

Mean(vals) == RDiv(RSum(vals), RInt(Len(vals)))
Median(vals) ==
    LET s == Sorted(vals)
        n == Len(s)
    IN  IF n % 2 = 1 THEN s[(n + 1) \div 2].q
        ELSE RDiv(RAdd(s[n \div 2].q, s[n \div 2 + 1].q), RInt(2))

\* ------------------------------------------------- handle_missing_values
\* mutant: the subset is ignored, a NaN in any column drops the row
dropna_any_column(df, cols) ==
    IF ~HasColumns(df, cols) THEN Raise("KeyError")
    ELSE Ok([df EXCEPT !.rows = SelectSeq(df.rows,
                LAMBDA r : \A c \in DOMAIN r : ~isnull(r[c]))])

\* df.dropna(subset=cols)
dropna(df, cols) ==
    IF ~HasColumns(df, cols) THEN Raise("KeyError")
    ELSE Ok([df EXCEPT !.rows = SelectSeq(df.rows,
                LAMBDA r : \A i \in 1..Len(cols) : ~isnull(r[cols[i]]))])

FillDtype(df, c, v) ==
    IF df.dtype[c] = "object" THEN "object"
    ELSE IF \A i \in 1..Len(df.rows) : ~isnull(df.rows[i][c]) THEN df.dtype[c]
    ELSE IF v.k = "str" THEN "object"
    ELSE "float64"

fillna(df, cols, v) ==
    IF ~HasColumns(df, cols) THEN Raise("KeyError")
    ELSE Ok([rows |-> [i \in 1..Len(df.rows) |->
                        [c \in DOMAIN df.rows[i] |->
                           IF c \in SeqSet(cols) /\ isnull(df.rows[i][c])
                           THEN v ELSE df.rows[i][c]]],
             dtype |-> [c \in DOMAIN df.dtype |->
                           IF c \in SeqSet(cols) THEN FillDtype(df, c, v)
                           ELSE df.dtype[c]]])

\* SimpleImputer(strategy).fit_transform(df[cols]) assigned back to df[cols].
\* sklearn knows "mean", "median", "most_frequent" and "constant": it rejects
\* "mode"; it rejects non-numeric data and an empty frame; a column with no
\* observed value is dropped from its output, so the assignment fails.
Statistic(strategy, vals) ==
    IF strategy = "mean" THEN Mean(vals) ELSE Median(vals)

SimpleImputer(df, cols, strategy) ==
    IF ~HasColumns(df, cols) THEN Raise("KeyError")
    ELSE IF strategy \notin {"mean", "median"} THEN Raise("ValueError")
    ELSE IF Len(df.rows) = 0 THEN Raise("ValueError")
    ELSE IF \E i \in 1..Len(cols) : ~FloatConvertible(ColVals(df, cols[i]))
         THEN Raise("ValueError")
    ELSE IF \E i \in 1..Len(cols) : NotNull(ColVals(df, cols[i])) = <<>>
         THEN Raise("ValueError")
    ELSE Ok([rows |-> [i \in 1..Len(df.rows) |->
                        [c \in DOMAIN df.rows[i] |->
                           IF c \notin SeqSet(cols) THEN df.rows[i][c]
                           ELSE IF isnull(df.rows[i][c])
                           THEN NumQ(Statistic(strategy,
                                    [j \in 1..Len(NotNull(ColVals(df, c))) |->
                                        AsFloat(NotNull(ColVals(df, c))[j])]))
                           ELSE AsFloat(df.rows[i][c])]],
             dtype |-> [c \in DOMAIN df.dtype |->
                           IF c \in SeqSet(cols) THEN "float64" ELSE df.dtype[c]]])

NullColumns(df) ==
    SelectSeq(ColumnOrder, LAMBDA c :
        HasColumn(df, c) /\ \E i \in 1..Len(df.rows) : isnull(df.rows[i][c]))

\* mutant: the statistical strategies drop the incomplete rows instead of
\* filling them
handle_missing_values_dropping(df, strategy, columns, fill_value) ==
    LET cols == IF columns.none THEN NullColumns(df) ELSE columns.cols
    IN  IF cols = <<>> THEN Ok(df)
        ELSE IF strategy = "drop" THEN dropna(df, cols)
        ELSE IF strategy = "constant"
             THEN IF fill_value.none THEN Raise("ValueError")
                  ELSE fillna(df, cols, fill_value.v)
        ELSE IF strategy \in {"mean", "median", "mode"}
             THEN dropna(df, cols)
        ELSE Raise("ValueError")

handle_missing_values(df, strategy, columns, fill_value) ==
    LET cols == IF columns.none THEN NullColumns(df) ELSE columns.cols
    IN  IF cols = <<>> THEN Ok(df)
        ELSE IF strategy = "drop" THEN dropna(df, cols)
        ELSE IF strategy = "constant"
             THEN IF fill_value.none THEN Raise("ValueError")
                  ELSE fillna(df, cols, fill_value.v)
        ELSE IF strategy \in {"mean", "median", "mode"}
             THEN SimpleImputer(df, cols, strategy)
        ELSE Raise("ValueError")

\* --------------------------------------------------- remove_outliers_iqr
\* Series.quantile(p), p = num/4, linear interpolation over the sorted
\* non-null values.
Quantile(vals, num) ==
    LET s == Sorted(NotNull(vals))
        pos == (Len(s) - 1) * num
        lo == pos \div 4 + 1
        fr == pos % 4
    IN  IF fr = 0 THEN s[lo].q
        ELSE RAdd(s[lo].q, RMul(Rat(fr, 4), RSub(s[lo + 1].q, s[lo].q)))

\* mutant: strict comparisons
InBounds_strict(v, lower_bound, upper_bound) ==
    ~isnull(v) /\ RLt(lower_bound, v.q) /\ RLt(v.q, upper_bound)

\* (df[column] >= lower_bound) & (df[column] <= upper_bound); NaN compares false
InBounds(v, lower_bound, upper_bound) ==
    ~isnull(v) /\ RLe(lower_bound, v.q) /\ RLe(v.q, upper_bound)

\* Q1, Q3, IQR and the two bounds (cleaning.py:51-55)
IqrBounds(df, column, factor) ==
    LET Q1 == Quantile(ColVals(df, column), 1)
        Q3 == Quantile(ColVals(df, column), 3)
        IQR == RSub(Q3, Q1)
    IN  [lower_bound |-> RSub(Q1, RMul(factor, IQR)),
         upper_bound |-> RAdd(Q3, RMul(factor, IQR))]

\* with no observed value both quantiles are NaN and no row compares true
remove_outliers_iqr(df, column, factor) ==
    IF ~HasColumn(df, column) THEN Raise("KeyError")
    ELSE IF df.dtype[column] = "object" THEN Raise("TypeError")
    ELSE IF NotNull(ColVals(df, column)) = <<>>
         THEN Ok([df EXCEPT !.rows = <<>>])
    ELSE LET b == IqrBounds(df, column, factor)
         IN  Ok([df EXCEPT !.rows = SelectSeq(df.rows,
                    LAMBDA r : InBounds(r[column], b.lower_bound, b.upper_bound))])

\* --------------------------------------------------- convert_column_type
RECURSIVE ISqrt(_, _)
ISqrt(n, r) == IF (r + 1) * (r + 1) > n THEN r ELSE ISqrt(n, r + 1)

\* float -> int truncates toward zero
Trunc(v) ==
    LET a == Abs(v.q.n) \div v.q.d
        m == IF v.sq THEN ISqrt(a, 0) ELSE a
    IN  Num(IF v.q.n < 0 THEN -m ELSE m)

\* Series.astype(dtype): ok = FALSE when pandas raises.
CastCell(v, dtype) ==
    IF v.k = "str"
    THEN [ok |-> IsNumeral(v.s),
          v |-> IF IsNumeral(v.s) THEN Num(ParseNumeral(v.s)) ELSE v]
    ELSE IF isnull(v) THEN [ok |-> dtype = "float", v |-> v]
    ELSE [ok |-> TRUE, v |-> IF dtype = "int" THEN Trunc(v) ELSE v]

astype(vals, dtype) ==
    [ok |-> dtype \in {"int", "float"}
            /\ \A i \in 1..Len(vals) : CastCell(vals[i], dtype).ok,
     vals |-> [i \in 1..Len(vals) |-> CastCell(vals[i], dtype).v],
     dtype |-> IF dtype = "int" THEN "int64" ELSE "float64"]

\* try: df[column] = df[column].astype(dtype); except Exception: print(...)
\* printed = TRUE when the except branch reported the error.
Converted(r, printed) == [ok |-> r.ok, df |-> r.df, err |-> r.err, printed |-> printed]

\* mutant: the cast is not guarded by try/except
convert_column_type_unguarded(df, column, dtype) ==
    IF ~HasColumn(df, column) THEN Converted(Raise("KeyError"), FALSE)
    ELSE LET cast == astype(ColVals(df, column), dtype)
         IN  IF cast.ok
             THEN Converted(Ok(SetColumn(df, column, cast.vals, cast.dtype)), FALSE)
             ELSE Converted(Raise("ValueError"), FALSE)

convert_column_type(df, column, dtype) ==
    IF ~HasColumn(df, column) THEN Converted(Ok(df), TRUE)
    ELSE LET cast == astype(ColVals(df, column), dtype)
         IN  IF cast.ok
             THEN Converted(Ok(SetColumn(df, column, cast.vals, cast.dtype)), FALSE)
             ELSE Converted(Ok(df), TRUE)

\* ---------------------------------------------------------- normalize_data
RMin(vals) == CHOOSE i \in 1..Len(vals) : \A j \in 1..Len(vals) : RLe(vals[i].q, vals[j].q)
RMax(vals) == CHOOSE i \in 1..Len(vals) : \A j \in 1..Len(vals) : RLe(vals[j].q, vals[i].q)

MinMaxScale(v, obs) ==
    LET lo == obs[RMin(obs)].q
        range == RSub(obs[RMax(obs)].q, lo)
    IN  IF range.n = 0 THEN Num(0) ELSE NumQ(RDiv(RSub(v.q, lo), range))

\* z = (v - mean) / std, held as sign(z) * sqrt(z^2)
StandardScale(v, obs) ==
    LET mu == Mean(obs)
        dev == RSub(v.q, mu)
        var == Mean([i \in 1..Len(obs) |-> NumQ(RMul(RSub(obs[i].q, mu), RSub(obs[i].q, mu)))])
        z2 == RDiv(RMul(dev, dev), var)
    IN  IF var.n = 0 THEN NumQ(dev)
        ELSE [k |-> "num", q |-> IF dev.n < 0 THEN RSub(RInt(0), z2) ELSE z2,
              sq |-> TRUE, s |-> <<>>]

ScaleColumn(vals, method) ==
    LET fl == [i \in 1..Len(vals) |-> AsFloat(vals[i])]
        obs == NotNull(fl)
    IN  [i \in 1..Len(fl) |->
            IF isnull(fl[i]) THEN NaN
            ELSE IF method = "standard" THEN StandardScale(fl[i], obs)
            ELSE MinMaxScale(fl[i], obs)]

\* mutant: an unknown method falls back to standard scaling
normalize_data_fallback(df, columns, method) ==
    IF columns = <<>> THEN Ok(df)
    ELSE IF ~HasColumns(df, columns) THEN Raise("KeyError")
    ELSE IF Len(df.rows) = 0 THEN Raise("ValueError")
    ELSE IF \E i \in 1..Len(columns) : ~FloatConvertible(ColVals(df, columns[i]))
         THEN Raise("ValueError")
    ELSE Ok([rows |-> [i \in 1..Len(df.rows) |->
                        [c \in DOMAIN df.rows[i] |->
                           IF c \in SeqSet(columns)
                           THEN ScaleColumn(ColVals(df, c),
                                    IF method = "minmax" THEN "minmax" ELSE "standard")[i]
                           ELSE df.rows[i][c]]],
             dtype |-> [c \in DOMAIN df.dtype |->
                           IF c \in SeqSet(columns) THEN "float64" ELSE df.dtype[c]]])

normalize_data(df, columns, method) ==
    IF columns = <<>> THEN Ok(df)
    ELSE IF method \notin {"standard", "minmax"} THEN Raise("ValueError")
    ELSE IF ~HasColumns(df, columns) THEN Raise("KeyError")
    ELSE IF Len(df.rows) = 0 THEN Raise("ValueError")
    ELSE IF \E i \in 1..Len(columns) : ~FloatConvertible(ColVals(df, columns[i]))
         THEN Raise("ValueError")
    ELSE Ok([rows |-> [i \in 1..Len(df.rows) |->
                        [c \in DOMAIN df.rows[i] |->
                           IF c \in SeqSet(columns)
                           THEN ScaleColumn(ColVals(df, c), method)[i]
                           ELSE df.rows[i][c]]],
             dtype |-> [c \in DOMAIN df.dtype |->
                           IF c \in SeqSet(columns) THEN "float64" ELSE df.dtype[c]]])

\* ------------------------------------------------------- remove_duplicates
\* DataFrame.duplicated: rows are compared on the subset columns, NaN equal
\* to NaN.
SameKey(r1, r2, cols) == \A i \in 1..Len(cols) : r1[cols[i]] = r2[cols[i]]

\* mutant: keep='first' and keep='last' exchanged
duplicated_swapped(rows, cols, keep, i) ==
    CASE keep = "last" -> \E j \in 1..(i - 1) : SameKey(rows[j], rows[i], cols)
      [] keep = "first" -> \E j \in (i + 1)..Len(rows) : SameKey(rows[j], rows[i], cols)
      [] OTHER -> \E j \in 1..Len(rows) : j # i /\ SameKey(rows[j], rows[i], cols)

duplicated(rows, cols, keep, i) ==
    CASE keep = "first" -> \E j \in 1..(i - 1) : SameKey(rows[j], rows[i], cols)
      [] keep = "last" -> \E j \in (i + 1)..Len(rows) : SameKey(rows[j], rows[i], cols)
      [] OTHER -> \E j \in 1..Len(rows) : j # i /\ SameKey(rows[j], rows[i], cols)

RECURSIVE TakeRows(_, _, _)
TakeRows(rows, mask, i) ==
    IF i > Len(rows) THEN <<>>
    ELSE (IF mask[i] THEN <<rows[i]>> ELSE <<>>) \o TakeRows(rows, mask, i + 1)

remove_duplicates(df, subset, keep) ==
    LET cols == IF subset.none THEN SelectSeq(ColumnOrder, LAMBDA c : HasColumn(df, c))
                ELSE subset.cols
    IN  IF Len(df.rows) = 0 THEN Ok(df)   \* an empty frame is returned as a copy
        ELSE IF keep \notin {"first", "last", "False"} THEN Raise("ValueError")
        ELSE IF ~HasColumns(df, cols) THEN Raise("KeyError")
        ELSE Ok([df EXCEPT !.rows = TakeRows(df.rows,
                    [i \in 1..Len(df.rows) |-> ~duplicated(df.rows, cols, keep, i)], 1)])

\* ------------------------------------------------------- clean_text_column
\* The .str accessor exists on an object column holding strings (or nothing
\* but NaN); its methods map a non-string cell to NaN.
StrAccessor(df, column) ==
    /\ HasColumn(df, column)
    /\ df.dtype[column] = "object"
    /\ \/ \E i \in 1..Len(df.rows) : df.rows[i][column].k = "str"
       \/ \A i \in 1..Len(df.rows) : isnull(df.rows[i][column])

str_lower(v) == IF v.k = "str" THEN Str(py_lower(v.s)) ELSE NaN
str_strip(v) == IF v.k = "str" THEN Str(py_strip(v.s)) ELSE NaN
str_replace(v) == IF v.k = "str" THEN Str(re_sub_special(v.s)) ELSE NaN

StrMethod(method, v) ==
    CASE method = "lower" -> str_lower(v)
      [] method = "strip" -> str_strip(v)
      [] method = "replace" -> str_replace(v)

\* df[column] = df[column].str.<method>(...)
MapColumn(df, column, method) ==
    [df EXCEPT !.rows = [i \in 1..Len(df.rows) |->
        [df.rows[i] EXCEPT ![column] = StrMethod(method, df.rows[i][column])]]]

\* one "if flag:" statement of clean_text_column, r the outcome so far
TextStep(r, column, flag, method) ==
    IF ~r.ok \/ ~flag THEN r
    ELSE IF ~HasColumn(r.df, column) THEN Raise("KeyError")
    ELSE IF ~StrAccessor(r.df, column) THEN Raise("AttributeError")
    ELSE Ok(MapColumn(r.df, column, method))

\* mutant: special characters are removed before the strip
clean_text_column_replace_first(df, column, lower, remove_space, remove_special) ==
    TextStep(TextStep(TextStep(Ok(df), column, lower, "lower"),
                      column, remove_special, "replace"),
             column, remove_space, "strip")

clean_text_column(df, column, lower, remove_space, remove_special) ==
    TextStep(TextStep(TextStep(Ok(df), column, lower, "lower"),
                      column, remove_space, "strip"),
             column, remove_special, "replace")

\* -------------------------------------------------------------- import_data
\* A path is [name, ext]; the files on disk and what a reader makes of them.
Path(name, ext) == [name |-> name, ext |-> ext]
DataCsv == Path("data", "csv")
Paths == {DataCsv, Path("gone", "csv"), Path("notes", "txt"),
          Path("EMPTY", "CSV"), Path("broken", "csv")}

os_path_exists(filepath) == filepath.name # "gone"

\* filepath.split('.')[-1].lower()
InferFileType(filepath) == IF filepath.ext = "CSV" THEN "csv" ELSE filepath.ext

\* outcome of the pandas reader: the frame, or the exception it raises
Reader(filepath, rows) ==
    CASE filepath.name = "EMPTY" -> "EmptyDataError"
      [] filepath.name = "broken" -> "ParserError"
      [] OTHER -> "frame"

ReadFrame(rows) ==
    [rows |-> rows,
     dtype |-> [c \in Columns |-> InferDtype([i \in 1..Len(rows) |-> rows[i][c]])]]

\* the pandas reader / writer a file type selects; a file holds the format
\* its extension names, and a reader given another format raises
Codec(ft) == IF ft \in {"xls", "xlsx"} THEN "excel" ELSE ft

\* df = NoFrame with none = TRUE is the None result.
import_data(filepath, file_type, rows) ==
    LET ft == IF file_type = "None" THEN InferFileType(filepath) ELSE file_type
    IN  IF ~os_path_exists(filepath)
        THEN [none |-> TRUE, df |-> NoFrame, printed |-> "not found"]
        ELSE IF ft \notin {"csv", "json", "parquet", "xls", "xlsx"}
        THEN [none |-> TRUE, df |-> NoFrame, printed |-> "unsupported"]
        ELSE IF Codec(ft) # Codec(InferFileType(filepath))
        THEN [none |-> TRUE, df |-> NoFrame, printed |-> "Exception"]
        ELSE IF Reader(filepath, rows) # "frame"
        THEN [none |-> TRUE, df |-> NoFrame, printed |-> Reader(filepath, rows)]
        ELSE [none |-> FALSE, df |-> ReadFrame(rows), printed |-> ""]

\* --------------------------------------------------------------- export_data
\* written = FALSE: the pandas writer raises (the path cannot be written).
\* ok is the boolean returned.
export_data(df, filepath, file_type, written) ==
    IF file_type \notin {"csv", "json", "parquet", "xls", "xlsx"}
    THEN [ok |-> FALSE, printed |-> "unsupported"]
    ELSE IF ~written THEN [ok |-> FALSE, printed |-> "Error exporting"]
    ELSE [ok |-> TRUE, printed |-> ""]

\* ------------------------------------------------------------ inputs
Row(x, y, t) == [c \in Columns |-> IF c = "x" THEN x ELSE IF c = "y" THEN y ELSE t]

SeqsUpTo(S, n) == UNION {[1..k -> S] : k \in 1..n}

\* rows of the file the pipeline reads
FileRows == {Row(Num(0), Num(0), Str(<<" ", "A", "!">>)),
             Row(Num(0), Num(1), Str(<<"7">>)),
             Row(Num(1), Num(0), Str(<<"7">>)),
             Row(NaN, Num(1), NaN)}

FourRowFile == <<Row(Num(0), Num(0), Str(<<"7">>)), Row(Num(0), Num(0), Str(<<"7">>)),
                 Row(Num(0), Num(1), Str(<<"7">>)), Row(Num(1), Num(0), Str(<<"7">>))>>

ThreeRowFile == <<Row(Num(0), Num(0), Str(<<" ", "A", "!">>)),
                  Row(Num(0), Num(1), Str(<<"7">>)), Row(Num(1), Num(0), Str(<<"7">>))>>

Files == SeqsUpTo(FileRows, MaxRows) \cup {ThreeRowFile, FourRowFile}

\* keyword arguments of clean_data; an absent list argument (None) and an
\* empty one are both falsy, <<>> stands for either.
Configs ==
    [strategy : {"mean", "drop", "constant"},
     outlier_cols : {<<>>, <<"x">>, <<"x", "y">>, <<"y", "x">>},
     outlier_factor : {Rat(1, 2), Rat(3, 2)},
     normalize_cols : {<<>>, <<"x">>},
     normalize_method : {"minmax", "standard", "zscore"},
     convert_type : {<<>>, <<<<"t", "int">>, <<"x", "int">>>>, <<<<"y", "float">>>>},
     dup_subset : {None, Some(<<"x">>)},
     dup_keep : {"first", "False"},
     text_cols : {<<>>, <<"t">>},
     text_flags : {<<TRUE, TRUE, TRUE>>, <<TRUE, FALSE, FALSE>>}]

\* defaults of the keyword arguments (cleaning.py:125-128)
DefaultConfig ==
    [strategy |-> "mean", outlier_cols |-> <<>>, outlier_factor |-> Rat(3, 2),
     normalize_cols |-> <<>>, normalize_method |-> "standard",
     convert_type |-> <<>>, dup_subset |-> None, dup_keep |-> "first",
     text_cols |-> <<>>, text_flags |-> <<TRUE, TRUE, TRUE>>]

\* an argument that is not looked at is left at its default
Canonical(c) ==
    /\ c.outlier_cols = <<>> => c.outlier_factor = DefaultConfig.outlier_factor
    /\ c.normalize_cols = <<>> => c.normalize_method = DefaultConfig.normalize_method
    /\ c.text_cols = <<>> => c.text_flags = DefaultConfig.text_flags

\* ------------------------------------------------------------------ state
VARIABLES
    stored,   \* rows held by the readable data file
    pc,       \* position in clean_data
    cfg,      \* arguments of the running call
    df,       \* local variable df of clean_data
    i,        \* index of the running for loop
    calls,    \* cleaning functions invoked so far, in order
    stdout,   \* messages printed so far
    ret,      \* outcome of the call
    res       \* value returned to a caller that calls one cleaning function

vars == <<stored, pc, cfg, df, i, calls, stdout, ret, res>>

NoResult == [ok |-> FALSE, df |-> NoFrame, err |-> "none", printed |-> FALSE]

Pending == [kind |-> "pending", err |-> "none"]
Call(fn, arg) == [fn |-> fn, arg |-> arg]

Init ==
    /\ stored \in Files
    /\ pc = "idle"
    /\ cfg = [path |-> DataCsv, args |-> DefaultConfig]
    /\ df = NoFrame
    /\ i = 1
    /\ calls = <<>>
    /\ stdout = <<>>
    /\ ret = Pending
    /\ res = NoResult

\* mutant: type conversion placed before normalization
StageAfter_swapped(stage) ==
    CASE stage = "import" -> "missing"
      [] stage = "missing" -> "outliers"
      [] stage = "outliers" -> "convert"
      [] stage = "convert" -> "normalize"
      [] stage = "normalize" -> "dedup"
      [] stage = "dedup" -> "text"
      [] stage = "text" -> "return"

\* statement order of the body of clean_data
StageAfter(stage) ==
    CASE stage = "import" -> "missing"
      [] stage = "missing" -> "outliers"
      [] stage = "outliers" -> "normalize"
      [] stage = "normalize" -> "convert"
      [] stage = "convert" -> "dedup"
      [] stage = "dedup" -> "text"
      [] stage = "text" -> "return"

\* a step raised: the exception leaves clean_data
Propagate(r) ==
    /\ pc' = "done"
    /\ ret' = [kind |-> "raise", err |-> r.err]
    /\ UNCHANGED <<df, i>>

\* mutant: the None result of import_data is not checked
CleanData_unchecked ==
    /\ pc = "idle"
    /\ \E path \in Paths, args \in Configs :
        /\ Canonical(args)
        /\ cfg' = [path |-> path, args |-> args]
        /\ LET r == import_data(path, "None", stored)
           IN  /\ stdout' = IF r.printed = "" THEN stdout ELSE Append(stdout, r.printed)
               /\ pc' = StageAfter("import")
               /\ ret' = ret
               /\ df' = r.df
    /\ UNCHANGED <<stored, i, calls, res>>

\* df = import_data(filepath); if df is None: return None
CleanData ==
    /\ pc = "idle"
    /\ \E path \in Paths, args \in Configs :
        /\ Canonical(args)
        /\ cfg' = [path |-> path, args |-> args]
        /\ LET r == import_data(path, "None", stored)
           IN  /\ stdout' = IF r.printed = "" THEN stdout ELSE Append(stdout, r.printed)
               /\ IF r.none
                  THEN /\ pc' = "done"
                       /\ ret' = [kind |-> "None", err |-> "none"]
                       /\ df' = df
                  ELSE /\ pc' = StageAfter("import")
                       /\ ret' = ret
                       /\ df' = r.df
    /\ UNCHANGED <<stored, i, calls, res>>

\* mutant: clean_data hands a fill value of 0 to handle_missing_values
HandleMissing_filled ==
    /\ pc = "missing"
    /\ calls' = Append(calls, Call("handle_missing_values", cfg.args.strategy))
    /\ LET r == handle_missing_values(df, cfg.args.strategy, None, Fill(Num(0)))
       IN  IF r.ok
           THEN /\ df' = r.df
                /\ pc' = StageAfter("missing")
                /\ i' = 1
                /\ ret' = ret
           ELSE Propagate(r)
    /\ UNCHANGED <<stored, cfg, stdout, res>>

\* df = handle_missing_values(df, strategy)
HandleMissing ==
    /\ pc = "missing"
    /\ calls' = Append(calls, Call("handle_missing_values", cfg.args.strategy))
    /\ LET r == handle_missing_values(df, cfg.args.strategy, None, NoFill)
       IN  IF r.ok
           THEN /\ df' = r.df
                /\ pc' = StageAfter("missing")
                /\ i' = 1
                /\ ret' = ret
           ELSE Propagate(r)
    /\ UNCHANGED <<stored, cfg, stdout, res>>

\* mutant: every column's bounds are taken from the table as it was before
\* the loop
OutlierIter_original_bounds ==
    /\ pc = "outliers"
    /\ i <= Len(cfg.args.outlier_cols)
    /\ calls' = Append(calls, Call("remove_outliers_iqr", cfg.args.outlier_cols[i]))
    /\ LET col == cfg.args.outlier_cols[i]
           before == handle_missing_values(ReadFrame(stored), cfg.args.strategy, None, NoFill).df
           b == IqrBounds(before, col, cfg.args.outlier_factor)
       IN  /\ df' = [df EXCEPT !.rows = SelectSeq(df.rows,
                        LAMBDA r : InBounds(r[col], b.lower_bound, b.upper_bound))]
           /\ i' = i + 1
           /\ UNCHANGED <<pc, ret>>
    /\ UNCHANGED <<stored, cfg, stdout, res>>

\* for col in outlier_cols: df = remove_outliers_iqr(df, col, outlier_factor)
OutlierIter ==
    /\ pc = "outliers"
    /\ i <= Len(cfg.args.outlier_cols)
    /\ calls' = Append(calls, Call("remove_outliers_iqr", cfg.args.outlier_cols[i]))
    /\ LET r == remove_outliers_iqr(df, cfg.args.outlier_cols[i], cfg.args.outlier_factor)
       IN  IF r.ok
           THEN /\ df' = r.df
                /\ i' = i + 1
                /\ UNCHANGED <<pc, ret>>
           ELSE Propagate(r)
    /\ UNCHANGED <<stored, cfg, stdout, res>>

OutlierEnd ==
    /\ pc = "outliers"
    /\ i > Len(cfg.args.outlier_cols)
    /\ pc' = StageAfter("outliers")
    /\ i' = 1
    /\ UNCHANGED <<stored, cfg, df, calls, stdout, ret, res>>

\* mutant: normalize_data is called whether or not columns are configured
Normalize_always ==
    /\ pc = "normalize"
    /\ calls' = Append(calls, Call("normalize_data", cfg.args.normalize_method))
    /\ LET r == normalize_data(df, cfg.args.normalize_cols, cfg.args.normalize_method)
       IN  IF r.ok
           THEN /\ df' = r.df
                /\ pc' = StageAfter("normalize")
                /\ UNCHANGED <<i, ret>>
           ELSE Propagate(r)
    /\ UNCHANGED <<stored, cfg, stdout, res>>

\* if normalize_cols: df = normalize_data(df, normalize_cols, normalize_method)
Normalize ==
    /\ pc = "normalize"
    /\ IF cfg.args.normalize_cols # <<>>
       THEN /\ calls' = Append(calls, Call("normalize_data", cfg.args.normalize_method))
            /\ LET r == normalize_data(df, cfg.args.normalize_cols, cfg.args.normalize_method)
               IN  IF r.ok
                   THEN /\ df' = r.df
                        /\ pc' = StageAfter("normalize")
                        /\ UNCHANGED <<i, ret>>
                   ELSE Propagate(r)
       ELSE /\ pc' = StageAfter("normalize")
            /\ UNCHANGED <<df, i, calls, ret>>
    /\ UNCHANGED <<stored, cfg, stdout, res>>

\* for col, type in convert_type.items(): df = convert_column_type(df, col, type)
ConvertIter ==
    /\ pc = "convert"
    /\ i <= Len(cfg.args.convert_type)
    /\ calls' = Append(calls, Call("convert_column_type", cfg.args.convert_type[i][1]))
    /\ LET r == convert_column_type(df, cfg.args.convert_type[i][1], cfg.args.convert_type[i][2])
       IN  /\ stdout' = IF r.printed THEN Append(stdout, "Error converting column") ELSE stdout
           /\ IF r.ok
              THEN /\ df' = r.df
                   /\ i' = i + 1
                   /\ UNCHANGED <<pc, ret>>
              ELSE Propagate(r)
    /\ UNCHANGED <<stored, cfg, res>>

ConvertEnd ==
    /\ pc = "convert"
    /\ i > Len(cfg.args.convert_type)
    /\ pc' = StageAfter("convert")
    /\ i' = 1
    /\ UNCHANGED <<stored, cfg, df, calls, stdout, ret, res>>

\* df = remove_duplicates(df, subset=dup_subset, keep=dup_keep)
RemoveDuplicates ==
    /\ pc = "dedup"
    /\ calls' = Append(calls, Call("remove_duplicates", cfg.args.dup_keep))
    /\ LET r == remove_duplicates(df, cfg.args.dup_subset, cfg.args.dup_keep)
       IN  IF r.ok
           THEN /\ df' = r.df
                /\ pc' = StageAfter("dedup")
                /\ i' = 1
                /\ ret' = ret
           ELSE Propagate(r)
    /\ UNCHANGED <<stored, cfg, stdout, res>>

\* for col in text_cols: df = clean_text_column(df, col, ...)
TextIter ==
    /\ pc = "text"
    /\ i <= Len(cfg.args.text_cols)
    /\ calls' = Append(calls, Call("clean_text_column", cfg.args.text_cols[i]))
    /\ LET r == clean_text_column(df, cfg.args.text_cols[i], cfg.args.text_flags[1],
                                  cfg.args.text_flags[2], cfg.args.text_flags[3])
       IN  IF r.ok
           THEN /\ df' = r.df
                /\ i' = i + 1
                /\ UNCHANGED <<pc, ret>>
           ELSE Propagate(r)
    /\ UNCHANGED <<stored, cfg, stdout, res>>

\* return df
Return ==
    /\ pc = "text"
    /\ i > Len(cfg.args.text_cols)
    /\ pc' = "done"
    /\ ret' = [kind |-> "df", err |-> "none"]
    /\ UNCHANGED <<stored, cfg, df, i, calls, stdout, res>>

Next ==
    \/ CleanData
    \/ HandleMissing
    \/ OutlierIter
    \/ OutlierEnd
    \/ Normalize
    \/ ConvertIter
    \/ ConvertEnd
    \/ RemoveDuplicates
    \/ TextIter
    \/ Return

Spec == Init /\ [][Next]_vars


\* ------------------------------------------- direct calls of one function
\* A caller holds a frame df and calls one cleaning function on it; cfg
\* records the arguments (cfg.df the frame as passed), res the outcome, df
\* the caller's frame afterwards (an assignment df[columns] = ... inside the
\* function writes into the caller's frame).
InitCall(frames) ==
    /\ stored = <<>>
    /\ pc = "call"
    /\ cfg = [fn |-> "none"]
    /\ df \in frames
    /\ i = 1
    /\ calls = <<>>
    /\ stdout = <<>>
    /\ ret = Pending
    /\ res = NoResult

ReturnedFrom(fn) == pc = "returned" /\ cfg.fn = fn

MissingRows == {Row(Num(0), Num(0), Str(<<"7">>)), Row(NaN, Num(1), Str(<<"7">>)),
                Row(Num(1), NaN, NaN), Row(NaN, NaN, Str(<<"A">>))}
MissingFrames == {ReadFrame(rows) : rows \in SeqsUpTo(MissingRows, MaxUnitRows)}
Strategies == {"mean", "median", "mode", "constant", "drop", "most_frequent", "average"}
Selectors == {None, Some(<<>>), Some(<<"x">>), Some(<<"y">>), Some(<<"x", "t">>), Some(<<"z">>)}
Fills == {NoFill, Fill(Num(0))}

CallHandleMissing ==
    /\ pc = "call"
    /\ \E strategy \in Strategies, columns \in Selectors, fill_value \in Fills :
        LET r == handle_missing_values(df, strategy, columns, fill_value)
        IN  /\ cfg' = [fn |-> "handle_missing_values", df |-> df, strategy |-> strategy,
                       columns |-> columns, fill_value |-> fill_value]
            /\ res' = Converted(r, FALSE)
            /\ df' = IF r.ok /\ strategy # "drop" THEN r.df ELSE df
    /\ pc' = "returned"
    /\ UNCHANGED <<stored, i, calls, stdout, ret>>

SpecMissing == InitCall(MissingFrames) /\ [][CallHandleMissing]_vars

OutlierRows == {Row(x, y, NaN) : x \in {NaN, Num(0), Num(1), Num(2), Num(5)}, y \in {Num(0), Num(1)}}
OutlierExample ==
    <<Row(Num(1), Num(0), NaN), Row(Num(2), Num(0), NaN), Row(Num(3), Num(0), NaN),
      Row(Num(4), Num(0), NaN), Row(Num(100), Num(0), NaN)>>
OutlierFrames ==
    {ReadFrame(rows) : rows \in SeqsUpTo(OutlierRows, MaxUnitRows) \cup {OutlierExample}}
Factors == {RInt(0), Rat(1, 2), Rat(3, 2)}

CallRemoveOutliers ==
    /\ pc = "call"
    /\ \E column \in {"x", "t", "z"}, factor \in Factors :
        /\ cfg' = [fn |-> "remove_outliers_iqr", df |-> df, column |-> column, factor |-> factor]
        /\ res' = Converted(remove_outliers_iqr(df, column, factor), FALSE)
    /\ pc' = "returned"
    /\ UNCHANGED <<stored, df, i, calls, stdout, ret>>

SpecOutliers == InitCall(OutlierFrames) /\ [][CallRemoveOutliers]_vars

RowA == Row(Num(0), Num(0), Str(<<"7">>))
RowB == Row(Num(1), Num(0), NaN)
DuplicateRows == {RowA, RowB, Row(Num(0), Num(1), Str(<<"7">>)), Row(NaN, Num(0), NaN)}
DuplicateFrames == {ReadFrame(rows) : rows \in SeqsUpTo(DuplicateRows, MaxUnitRows)}
Subsets == {None, Some(<<"x">>), Some(<<"x", "t">>), Some(<<"z">>)}
Keeps == {"first", "last", "False", "any"}

CallRemoveDuplicates ==
    /\ pc = "call"
    /\ \E subset \in Subsets, keep \in Keeps :
        /\ cfg' = [fn |-> "remove_duplicates", df |-> df, subset |-> subset, keep |-> keep]
        /\ res' = Converted(remove_duplicates(df, subset, keep), FALSE)
    /\ pc' = "returned"
    /\ UNCHANGED <<stored, df, i, calls, stdout, ret>>

SpecDuplicates == InitCall(DuplicateFrames) /\ [][CallRemoveDuplicates]_vars

TextAlphabet == {" ", "!", "A", "b", "7"}
Texts == UNION {[1..k -> TextAlphabet] : k \in 0..MaxStrLen}
TextExample == <<" ", "H", "e", "!", "!", "o", " ">>
TextFrames ==
    {ReadFrame(<<Row(Num(0), Num(0), Str(s))>>) : s \in Texts \cup {TextExample}}
    \cup {ReadFrame(<<Row(Num(0), Num(0), Str(<<" ", "A", "!">>)), Row(Num(0), Num(0), NaN)>>),
          ReadFrame(<<Row(Num(0), Num(0), NaN)>>)}

CallCleanText ==
    /\ pc = "call"
    /\ \E column \in {"t", "x", "z"}, lower \in BOOLEAN, remove_space \in BOOLEAN,
          remove_special \in BOOLEAN :
        LET r == clean_text_column(df, column, lower, remove_space, remove_special)
        IN  /\ cfg' = [fn |-> "clean_text_column", df |-> df, column |-> column,
                       lower |-> lower, remove_space |-> remove_space,
                       remove_special |-> remove_special]
            /\ res' = Converted(r, FALSE)
            /\ df' = IF r.ok THEN r.df ELSE df
    /\ pc' = "returned"
    /\ UNCHANGED <<stored, i, calls, stdout, ret>>

SpecText == InitCall(TextFrames) /\ [][CallCleanText]_vars

Methods == {"standard", "minmax", "zscore", "robust"}
ColumnLists == {<<>>, <<"x">>, <<"x", "y">>, <<"t">>, <<"z">>}

CallNormalize ==
    /\ pc = "call"
    /\ \E columns \in ColumnLists, method \in Methods :
        LET r == normalize_data(df, columns, method)
        IN  /\ cfg' = [fn |-> "normalize_data", df |-> df, columns |-> columns,
                       method |-> method]
            /\ res' = Converted(r, FALSE)
            /\ df' = IF r.ok THEN r.df ELSE df
    /\ pc' = "returned"
    /\ UNCHANGED <<stored, i, calls, stdout, ret>>

CallConvert ==
    /\ pc = "call"
    /\ \E column \in {"x", "t", "z"}, dtype \in {"int", "float"} :
        LET r == convert_column_type(df, column, dtype)
        IN  /\ cfg' = [fn |-> "convert_column_type", df |-> df, column |-> column,
                       dtype |-> dtype]
            /\ res' = r
            /\ df' = IF r.ok THEN r.df ELSE df
            /\ stdout' = IF r.printed THEN Append(stdout, "Error converting column")
                          ELSE stdout
    /\ pc' = "returned"
    /\ UNCHANGED <<stored, i, calls, ret>>

\* direct calls of the two functions of io.py
IOPaths == Paths \cup {Path("data", "json"), Path("data", "parquet"),
                       Path("book", "xlsx"), Path("book", "xls")}
FileTypes == {"None", "csv", "json", "parquet", "excel", "xls", "xlsx", "txt"}

InitIO ==
    /\ stored \in Files
    /\ pc = "call"
    /\ cfg = [fn |-> "none"]
    /\ df = ReadFrame(stored)
    /\ i = 1
    /\ calls = <<>>
    /\ stdout = <<>>
    /\ ret = Pending
    /\ res = NoResult

CallImport ==
    /\ pc = "call"
    /\ \E filepath \in IOPaths, file_type \in FileTypes :
        LET r == import_data(filepath, file_type, stored)
        IN  /\ cfg' = [fn |-> "import_data", filepath |-> filepath, file_type |-> file_type]
            /\ res' = r
            /\ stdout' = IF r.printed = "" THEN stdout ELSE Append(stdout, r.printed)
    /\ pc' = "returned"
    /\ UNCHANGED <<stored, df, i, calls, ret>>

CallExport ==
    /\ pc = "call"
    /\ \E filepath \in IOPaths, file_type \in FileTypes \ {"None"}, written \in BOOLEAN :
        LET r == export_data(df, filepath, file_type, written)
        IN  /\ cfg' = [fn |-> "export_data", filepath |-> filepath, file_type |-> file_type,
                       written |-> written]
            /\ res' = r
            /\ stdout' = IF r.printed = "" THEN stdout ELSE Append(stdout, r.printed)
    /\ pc' = "returned"
    /\ UNCHANGED <<stored, df, i, calls, ret>>

SpecIO == InitIO /\ [][CallImport \/ CallExport]_vars

\* frames handed to any of the six functions
CallFrames == MissingFrames \cup DuplicateFrames \cup TextFrames

\* clean_data runs and direct calls of the six cleaning functions
InitAll == Init \/ InitCall(CallFrames)

NextAll ==
    \/ Next
    \/ CallHandleMissing
    \/ CallRemoveOutliers
    \/ CallNormalize
    \/ CallConvert
    \/ CallRemoveDuplicates
    \/ CallCleanText

SpecAll == InitAll /\ [][NextAll]_vars

\* ================================================================ claims
IsPrefix(a, b) == Len(a) <= Len(b) /\ SubSeq(b, 1, Len(a)) = a
CallsOf(fn) == SelectSeq(calls, LAMBDA c : c.fn = fn)
Called(fn) == CallsOf(fn) # <<>>
Returned == pc = "done" /\ ret.kind = "df"
Raised == pc = "done" /\ ret.kind = "raise"

\* C1: when import_data returns None, clean_data returns None and no
\* cleaning step is invoked, whatever the configuration; clean_data returns
\* None in no other case.
C1_ImportFailureStopsPipeline ==
    /\ (pc # "idle" /\ import_data(cfg.path, "None", stored).none)
          => (pc = "done" /\ ret.kind = "None" /\ calls = <<>>)
    /\ ret.kind = "None" => import_data(cfg.path, "None", stored).none

C1_Witness ==
    /\ pc = "done" /\ ret.kind = "None" /\ calls = <<>>
    /\ ~os_path_exists(cfg.path)
    /\ cfg.args.outlier_cols # <<>> /\ cfg.args.normalize_cols # <<>>
    /\ cfg.args.convert_type # <<>> /\ cfg.args.text_cols # <<>>

\* the steps a complete run invokes, in the order the claim fixes
ExpectedCalls(args) ==
    <<Call("handle_missing_values", args.strategy)>>
    \o [k \in 1..Len(args.outlier_cols) |-> Call("remove_outliers_iqr", args.outlier_cols[k])]
    \o (IF args.normalize_cols # <<>>
        THEN <<Call("normalize_data", args.normalize_method)>> ELSE <<>>)
    \o [k \in 1..Len(args.convert_type) |-> Call("convert_column_type", args.convert_type[k][1])]
    \o <<Call("remove_duplicates", args.dup_keep)>>
    \o [k \in 1..Len(args.text_cols) |-> Call("clean_text_column", args.text_cols[k])]

\* C2: the steps of a run execute in the fixed order missing values,
\* outliers per column in list order, normalization, type conversion per map
\* entry, duplicates, text per column: what has run so far is always a prefix
\* of that sequence, and a run that returns a table has run all of it.
C2_FixedStepOrder ==
    /\ IsPrefix(calls, ExpectedCalls(cfg.args))
    /\ Returned => calls = ExpectedCalls(cfg.args)

C2_Witness ==
    /\ Returned
    /\ Len(cfg.args.outlier_cols) = 2 /\ cfg.args.normalize_cols # <<>>
    /\ Len(cfg.args.convert_type) = 2 /\ cfg.args.text_cols # <<>>
    /\ Len(calls) = 8

OnlyStrategy(args) == args = [DefaultConfig EXCEPT !.strategy = args.strategy]

\* C3 as stated: a run given only a data source and a strategy invokes no
\* step other than missing-value handling.
C3_OnlyMissingValueHandlingRuns ==
    (Returned /\ OnlyStrategy(cfg.args))
        => \A k \in 1..Len(calls) : calls[k].fn = "handle_missing_values"

\* C3 amended: outlier removal, normalization, type conversion and text
\* normalization are never invoked when their configuration is absent, and a
\* run given only a data source and a strategy raises nowhere after
\* missing-value handling; duplicate removal has no absent configuration: a
\* run that returns a table has invoked it exactly once, so the minimal run
\* invokes missing-value handling and then duplicate removal.
C3_OptionalStepsSkipped ==
    /\ cfg.args.outlier_cols = <<>> => ~Called("remove_outliers_iqr")
    /\ cfg.args.normalize_cols = <<>> => ~Called("normalize_data")
    /\ cfg.args.convert_type = <<>> => ~Called("convert_column_type")
    /\ cfg.args.text_cols = <<>> => ~Called("clean_text_column")
    /\ Returned => Len(CallsOf("remove_duplicates")) = 1
    /\ (Returned /\ OnlyStrategy(cfg.args))
          => calls = <<Call("handle_missing_values", cfg.args.strategy),
                       Call("remove_duplicates", "first")>>
    /\ (Raised /\ OnlyStrategy(cfg.args))
          => calls = <<Call("handle_missing_values", cfg.args.strategy)>>

C3_Witness ==
    /\ Returned /\ OnlyStrategy(cfg.args)
    /\ cfg.args.strategy = "drop"
    /\ Len(calls) = 2
    /\ Len(df.rows) < Len(stored)

ConvertEntry == cfg.args.convert_type[i]
ConvertRunning == pc = "convert" /\ i <= Len(cfg.args.convert_type)
CastFails ==
    ~HasColumn(df, ConvertEntry[1]) \/ ~astype(ColVals(df, ConvertEntry[1]), ConvertEntry[2]).ok

C5_NoRaise ==
    /\ Raised => calls[Len(calls)].fn # "convert_column_type"
    /\ (pc \in {"dedup", "text"} \/ Returned)
          => Len(CallsOf("convert_column_type")) = Len(cfg.args.convert_type)
    /\ Returned => Called("remove_duplicates")
                   /\ Len(CallsOf("clean_text_column")) = Len(cfg.args.text_cols)

C5_Step ==
    ConvertRunning =>
        /\ pc' = "convert" /\ i' = i + 1 /\ ret' = ret
        /\ CastFails => /\ df' = df
                        /\ stdout' = Append(stdout, "Error converting column")
        /\ ~CastFails => /\ stdout' = stdout
                         /\ df'.dtype[ConvertEntry[1]] \in {"int64", "float64"}

\* C5: a failed cast in convert_column_type is reported and not raised, the
\* table comes back with the column unchanged, and in clean_data the
\* remaining entries of the type map, duplicate removal and text
\* normalization still run.
C5_CastFailureIsContained == []C5_NoRaise /\ [][C5_Step]_vars

C5_Witness ==
    /\ Returned
    /\ cfg.args.convert_type = <<<<"t", "int">>, <<"x", "int">>>>
    /\ stdout = <<"Error converting column">>
    /\ df.dtype["t"] = "object"
    /\ ReadFrame(stored).dtype["x"] = "float64" /\ df.dtype["x"] = "int64"
    /\ Called("remove_duplicates") /\ Called("clean_text_column")

RECURSIVE ComposeOutliers(_, _, _, _)
ComposeOutliers(r, cols, factor, n) ==
    IF n = 0 THEN r
    ELSE LET before == ComposeOutliers(r, cols, factor, n - 1)
         IN  IF before.ok THEN remove_outliers_iqr(before.df, cols[n], factor) ELSE before

BeforeOutliers == handle_missing_values(ReadFrame(stored), cfg.args.strategy, None, NoFill)
Reverse(s) == [k \in 1..Len(s) |-> s[Len(s) + 1 - k]]

\* C8: outlier removal over several columns is cumulative: after the k-th
\* column the table is remove_outliers_iqr applied left to right, each on the
\* result of the one before, to the table missing-value handling produced.
C8_OutliersCumulative ==
    /\ pc = "outliers"
          => Ok(df) = ComposeOutliers(BeforeOutliers, cfg.args.outlier_cols,
                                      cfg.args.outlier_factor, i - 1)
    /\ pc = "normalize"
          => Ok(df) = ComposeOutliers(BeforeOutliers, cfg.args.outlier_cols,
                                      cfg.args.outlier_factor, Len(cfg.args.outlier_cols))

\* a run over two columns whose result differs from that of the reversed list
C8_Witness ==
    /\ pc = "normalize"
    /\ Len(cfg.args.outlier_cols) = 2
    /\ cfg.args.outlier_factor = Rat(3, 2)
    /\ Ok(df) # ComposeOutliers(BeforeOutliers, Reverse(cfg.args.outlier_cols),
                                cfg.args.outlier_factor, 2)

\* rows of a sequence at the indices of K, in increasing index order
RowsAt(rows, K) ==
    [j \in 1..Cardinality(K) |->
        rows[CHOOSE n \in K : Cardinality({m \in K : m <= n}) = j]]

ValidStrategies == {"mean", "median", "mode", "constant", "drop"}

\* C4: handle_missing_values fails with a ValueError, and returns no table,
\* whenever the strategy is 'constant' with no fill value and whenever the
\* strategy is not one of mean, median, mode, constant, drop, for any table
\* and any column selector.
C4_InvalidConfigurationRejected ==
    (/\ ReturnedFrom("handle_missing_values")
     /\ \/ cfg.strategy = "constant" /\ cfg.fill_value.none
        \/ cfg.strategy \notin ValidStrategies)
        => (~res.ok /\ res.err = "ValueError")

\* columns the call selects: the given ones, or those holding a NaN
SelectedColumns ==
    IF cfg.columns.none
    THEN {c \in Columns : \E n \in 1..Len(cfg.df.rows) : cfg.df.rows[n][c].k = "nan"}
    ELSE SeqSet(cfg.columns.cols)

CompleteRows ==
    {n \in 1..Len(cfg.df.rows) : \A c \in SelectedColumns : cfg.df.rows[n][c].k # "nan"}

\* C6: with strategy 'drop' handle_missing_values returns exactly the rows
\* that have no missing value in any selected column, in their original
\* order, so never more rows than it was given; the caller's frame is left
\* as it was.
C6_DropRemovesExactlyIncompleteRows ==
    (/\ ReturnedFrom("handle_missing_values")
     /\ cfg.strategy = "drop"
     /\ SelectedColumns \subseteq Columns)
        => /\ res.ok
           /\ res.df.rows = RowsAt(cfg.df.rows, CompleteRows)
           /\ Len(res.df.rows) <= Len(cfg.df.rows)
           /\ res.df.dtype = cfg.df.dtype
           /\ df = cfg.df

C6_Witness ==
    /\ ReturnedFrom("handle_missing_values")
    /\ cfg.strategy = "drop" /\ cfg.columns = Some(<<"x">>)
    /\ Len(cfg.df.rows) = 3 /\ Len(res.df.rows) = 1
    /\ res.df.rows[1]["y"].k = "nan"

\* the p-th quartile point of a column: the observed values in ascending
\* order, interpolated linearly at rank p/4 * (n - 1)
Ascending(vals) ==
    CHOOSE s \in [1..Len(vals) -> SeqSet(vals)] :
        /\ \A n \in 1..(Len(s) - 1) : RLe(s[n].q, s[n + 1].q)
        /\ \A v \in SeqSet(vals) :
              Cardinality({n \in 1..Len(s) : s[n] = v})
                  = Cardinality({n \in 1..Len(vals) : vals[n] = v})

Percentile(vals, p) ==
    LET s == Ascending(vals)
        below == ((Len(s) - 1) * p) \div 4 + 1
        w == ((Len(s) - 1) * p) % 4
        above == IF w = 0 THEN below ELSE below + 1
    IN  Rat((4 - w) * s[below].q.n * s[above].q.d + w * s[above].q.n * s[below].q.d,
            4 * s[below].q.d * s[above].q.d)

Observed == SelectSeq(ColVals(cfg.df, cfg.column), LAMBDA v : v.k = "num")

WithinIqrInterval(v) ==
    LET Q1 == Percentile(Observed, 1)
        Q3 == Percentile(Observed, 3)
        span == RMul(cfg.factor, RSub(Q3, Q1))
    IN  /\ v.k = "num"
        /\ Observed # <<>>
        /\ RLe(RSub(Q1, span), v.q)
        /\ RLe(v.q, RAdd(Q3, span))

\* C7: remove_outliers_iqr returns exactly the rows whose value in the column
\* lies in [Q1 - factor*IQR, Q3 + factor*IQR], bounds included, Q1 and Q3
\* the 25th and 75th percentiles of the column of the input; on [1,2,3,4,100]
\* with factor 1.5 the bounds are [-1, 7] and only the row with 100 goes.
C7_OutlierRowsRemoved ==
    (/\ ReturnedFrom("remove_outliers_iqr")
     /\ cfg.column \in Columns
     /\ cfg.df.dtype[cfg.column] # "object")
        => /\ res.ok
           /\ res.df.rows = RowsAt(cfg.df.rows,
                 {n \in 1..Len(cfg.df.rows) : WithinIqrInterval(cfg.df.rows[n][cfg.column])})
           /\ (cfg.df.rows = OutlierExample /\ cfg.column = "x" /\ cfg.factor = Rat(3, 2))
                 => /\ Percentile(Observed, 1) = RInt(2)
                    /\ Percentile(Observed, 3) = RInt(4)
                    /\ ColVals(res.df, "x") = <<Num(1), Num(2), Num(3), Num(4)>>

C7_Witness ==
    /\ ReturnedFrom("remove_outliers_iqr")
    /\ cfg.df.rows = OutlierExample /\ cfg.column = "x" /\ cfg.factor = Rat(3, 2)
    /\ res.ok /\ Len(res.df.rows) = 4
    /\ \A n \in 1..4 : res.df.rows[n]["x"] # Num(100)

\* group of a row: the rows equal to it on the subset columns
SubsetColumns == IF cfg.subset.none THEN Columns ELSE SeqSet(cfg.subset.cols)
Group(n) ==
    {m \in 1..Len(cfg.df.rows) :
        \A c \in SubsetColumns : cfg.df.rows[m][c] = cfg.df.rows[n][c]}
Least(S) == CHOOSE n \in S : \A m \in S : n <= m
Greatest(S) == CHOOSE n \in S : \A m \in S : m <= n
KeptOfGroups ==
    {n \in 1..Len(cfg.df.rows) :
        CASE cfg.keep = "first" -> n = Least(Group(n))
          [] cfg.keep = "last" -> n = Greatest(Group(n))
          [] cfg.keep = "False" -> Group(n) = {n}}

\* C9: remove_duplicates keeps of every group of rows equal on the subset
\* columns (all columns by default) the first row under keep='first', the
\* last under keep='last', none of a group of several under keep=False; the
\* kept rows stay in input order; [A,A,B] with keep='first' gives [A,B].
C9_DuplicatesRemoved ==
    /\ (/\ ReturnedFrom("remove_duplicates")
        /\ cfg.keep \in {"first", "last", "False"}
        /\ SubsetColumns \subseteq Columns)
          => /\ res.ok
             /\ res.df.rows = RowsAt(cfg.df.rows, KeptOfGroups)
    /\ (/\ ReturnedFrom("remove_duplicates")
        /\ cfg.df.rows = <<RowA, RowA, RowB>> /\ cfg.keep = "first" /\ cfg.subset = None)
          => res.df.rows = <<RowA, RowB>>

C9_Witness ==
    /\ ReturnedFrom("remove_duplicates")
    /\ cfg.df.rows = <<RowA, RowA, RowB>> /\ cfg.keep = "first" /\ cfg.subset = None
    /\ res.ok /\ res.df.rows = <<RowA, RowB>>

\* the three operations in the order the claim gives, each under its flag
StripThenLowerThenRemove(s) ==
    LET a == IF cfg.remove_space THEN py_strip(s) ELSE s
        b == IF cfg.lower THEN py_lower(a) ELSE a
    IN  IF cfg.remove_special THEN re_sub_special(b) ELSE b

\* C10: clean_text_column gives every text value the result of strip, then
\* lowercase, then removal of every character that is not an ASCII letter,
\* digit or whitespace, each operation applied only when its flag is set;
\* with all flags set " He!!o " becomes "heo".
C10_TextNormalized ==
    (/\ ReturnedFrom("clean_text_column")
     /\ cfg.column = "t"
     /\ cfg.df.dtype["t"] = "object")
        => /\ res.ok
           /\ Len(res.df.rows) = Len(cfg.df.rows)
           /\ \A n \in 1..Len(cfg.df.rows) :
                 cfg.df.rows[n]["t"].k = "str"
                    => res.df.rows[n]["t"] = Str(StripThenLowerThenRemove(cfg.df.rows[n]["t"].s))
           /\ (cfg.lower /\ cfg.remove_space /\ cfg.remove_special
               /\ cfg.df.rows[1]["t"] = Str(TextExample))
                 => res.df.rows[1]["t"] = Str(<<"h", "e", "o">>)

C10_Witness ==
    /\ ReturnedFrom("clean_text_column")
    /\ cfg.lower /\ cfg.remove_space /\ cfg.remove_special
    /\ cfg.df.rows[1]["t"] = Str(TextExample)
    /\ res.ok /\ res.df.rows[1]["t"] = Str(<<"h", "e", "o">>)

InPipeline == pc \notin {"call", "returned"}
NormalizationConfigured == InPipeline /\ cfg.args.normalize_cols # <<>>
ValidMethods == {"standard", "minmax"}

\* C11: normalize_data returns the table unchanged when the column list is
\* empty and otherwise fails with a ValueError, returning no table and
\* leaving the caller's frame alone, for every method other than 'standard'
\* and 'minmax'; a clean_data run with normalization configured and such a
\* method ends at the normalization step with that ValueError.
C11_InvalidMethodRejected ==
    /\ ReturnedFrom("normalize_data")
          => /\ cfg.columns = <<>> => (res.ok /\ res.df = cfg.df /\ df = cfg.df)
             /\ (cfg.columns # <<>> /\ cfg.method \notin ValidMethods)
                   => (~res.ok /\ res.err = "ValueError" /\ df = cfg.df)
    /\ (NormalizationConfigured /\ cfg.args.normalize_method \notin ValidMethods)
          => /\ pc \in {"missing", "outliers", "normalize", "done"}
             /\ ~Returned
             /\ Called("normalize_data")
                   => /\ Raised /\ ret.err = "ValueError"
                      /\ calls[Len(calls)].fn = "normalize_data"

C11_Witness ==
    /\ InPipeline /\ Raised /\ ret.err = "ValueError"
    /\ cfg.args.normalize_cols = <<"x">> /\ cfg.args.normalize_method = "zscore"
    /\ Len(cfg.args.outlier_cols) = 2
    /\ calls[Len(calls)] = Call("normalize_data", "zscore")

\* the call names a column the frame does not have
NamesUnknownColumn ==
    CASE cfg.fn = "handle_missing_values" -> ~cfg.columns.none /\ "z" \in SeqSet(cfg.columns.cols)
      [] cfg.fn = "remove_outliers_iqr" -> cfg.column = "z"
      [] cfg.fn = "normalize_data" -> "z" \in SeqSet(cfg.columns)
      [] cfg.fn = "convert_column_type" -> cfg.column = "z"
      [] cfg.fn = "remove_duplicates" -> ~cfg.subset.none /\ "z" \in SeqSet(cfg.subset.cols)
      [] cfg.fn = "clean_text_column" -> cfg.column = "z"
      [] OTHER -> FALSE

\* C12: every cleaning step given a column name that is not in the table
\* propagates an error to its caller and returns no table.
C12_UnknownColumnRaises ==
    (pc = "returned" /\ NamesUnknownColumn) => ~res.ok

DocumentedFileTypes == {"csv", "json", "parquet", "excel"}

\* C13: import_data and export_data accept each documented file_type 'csv',
\* 'json', 'parquet', 'excel': given one of them, import of an existing file
\* and export never end in the unsupported-format outcome, and an export
\* whose write goes through returns True.
C13_DocumentedTypesAccepted ==
    /\ (/\ ReturnedFrom("import_data")
        /\ cfg.file_type \in DocumentedFileTypes
        /\ os_path_exists(cfg.filepath))
          => res.printed # "unsupported"
    /\ (ReturnedFrom("export_data") /\ cfg.file_type \in DocumentedFileTypes)
          => /\ res.printed # "unsupported"
             /\ cfg.written => res.ok

\* the frames have the same number of rows and the same column names
SameShape(a, b) ==
    /\ Len(a.rows) = Len(b.rows)
    /\ DOMAIN a.dtype = DOMAIN b.dtype
    /\ \A k \in 1..Len(a.rows) : DOMAIN a.rows[k] = DOMAIN b.rows[k]

\* row k of b is row k of a, its cells outside the columns cols untouched
SameRowsOutside(a, b, cols) ==
    /\ SameShape(a, b)
    /\ \A k \in 1..Len(a.rows) : \A c \in DOMAIN a.rows[k] \ cols :
          b.rows[k][c] = a.rows[k][c]

FillingStrategies == {"mean", "median", "mode", "constant"}

\* the columns a direct call of a shape-preserving function may rewrite
TouchedByCall ==
    CASE cfg.fn = "handle_missing_values" ->
            IF cfg.columns.none THEN SeqSet(NullColumns(cfg.df)) ELSE SeqSet(cfg.columns.cols)
      [] cfg.fn = "normalize_data" -> SeqSet(cfg.columns)
      [] OTHER -> {cfg.column}

PreservingCall ==
    /\ pc = "returned"
    /\ \/ cfg.fn = "handle_missing_values" /\ cfg.strategy \in FillingStrategies
       \/ cfg.fn \in {"normalize_data", "convert_column_type", "clean_text_column"}
    /\ res.ok

C14_CallPreservesRows ==
    PreservingCall => SameRowsOutside(cfg.df, res.df, TouchedByCall)

\* one step of a clean_data run that holds a table before and after
C14_Step ==
    (InPipeline /\ pc # "idle" /\ pc' # "idle") =>
        /\ Len(df'.rows) <= Len(df.rows)
        /\ Len(df'.rows) < Len(df.rows) =>
              \/ pc \in {"outliers", "dedup"}
              \/ pc = "missing" /\ cfg.args.strategy = "drop"
        /\ (pc = "missing" /\ cfg.args.strategy # "drop") =>
              SameRowsOutside(df, df', SeqSet(NullColumns(df)))
        /\ pc = "normalize" => SameRowsOutside(df, df', SeqSet(cfg.args.normalize_cols))
        /\ (pc = "convert" /\ i <= Len(cfg.args.convert_type)) =>
              SameRowsOutside(df, df', {cfg.args.convert_type[i][1]})
        /\ (pc = "text" /\ i <= Len(cfg.args.text_cols)) =>
              SameRowsOutside(df, df', {cfg.args.text_cols[i]})
        /\ (pc \in {"convert", "text", "outliers"} /\ i' = 1) => df' = df

ConstantRun ==
    /\ InPipeline
    /\ pc # "idle"
    /\ ret.kind # "None"
    /\ cfg.args.strategy = "constant"

HasMissingValue(rows) == \E k \in 1..Len(rows) : \E c \in DOMAIN rows[k] : isnull(rows[k][c])

\* C15: clean_data passes no fill value, so a run with strategy 'constant' on
\* an imported table with a missing value never gets past missing-value
\* handling and ends with a ValueError raised by that first step, no table
\* returned; on a table with no missing value the step returns the table as it
\* is, never raises, and the run with the other arguments at their defaults
\* returns a table.
C15_ConstantNeedsFillValue ==
    ConstantRun =>
        IF HasMissingValue(stored)
        THEN /\ pc \in {"missing", "done"}
             /\ pc = "done" =>
                   /\ Raised
                   /\ ret.err = "ValueError"
                   /\ calls = <<Call("handle_missing_values", "constant")>>
        ELSE /\ (pc = "outliers" /\ i = 1 /\ Len(calls) = 1) => df = ReadFrame(stored)
             /\ Raised => calls[Len(calls)].fn # "handle_missing_values"
             /\ (pc = "done" /\ OnlyStrategy(cfg.args)) => Returned

C15_Witness ==
    /\ ConstantRun
    /\ HasMissingValue(stored)
    /\ Raised
    /\ ret.err = "ValueError"
    /\ calls = <<Call("handle_missing_values", "constant")>>
    /\ cfg.args.text_cols # <<>>

\* no leading or trailing whitespace, no uppercase letter, only ASCII
\* letters, digits and whitespace
NormalForm(s) ==
    /\ s # <<>> => (s[1] \notin Whitespace /\ s[Len(s)] \notin Whitespace)
    /\ \A k \in 1..Len(s) : s[k] \notin Upper /\ KeptByPattern(s[k])

AllFlagsCall ==
    /\ ReturnedFrom("clean_text_column")
    /\ cfg.column = "t"
    /\ cfg.lower /\ cfg.remove_space /\ cfg.remove_special
    /\ res.ok

\* C16: after clean_text_column with all three flags on, every value of the
\* column is in normal form, and a second application with the same flags
\* leaves the table unchanged.
C16_NormalFormIdempotent ==
    AllFlagsCall =>
        /\ \A k \in 1..Len(res.df.rows) :
              res.df.rows[k]["t"].k = "str" => NormalForm(res.df.rows[k]["t"].s)
        /\ clean_text_column(res.df, "t", TRUE, TRUE, TRUE) = Ok(res.df)

====
